---- MODULE Spec2Model ----
(***************************************************************************)
(* A model of submit_assignment.py: ConfigReader (read, __validate_config, *)
(* _get_file_list) and CanvasAssignment (__init__, get_assignment, submit) *)
(* together with upload_file_to_assignment.                                *)
(*                                                                         *)
(* One behaviour is one run: CanvasAssignment(path) is constructed and     *)
(* submit() is called once on it.  The filesystem (is the path a           *)
(* directory, is the include file there, what does it parse to, which      *)
(* paths exist and in which order the directory enumeration yields them)   *)
(* and the outcomes of the network calls are the environment.  Every       *)
(* network call the code makes is appended to the log `net` when issued.   *)
(***************************************************************************)
EXTENDS Integers, Sequences, FiniteSets, TLC

(* Bound: the longest `files` list of a configuration. *)
MaxEntries == 2

VARIABLES
    is_dir,         \* os.path.isdir(path)
    has_include,    \* os.path.isfile(os.path.join(path, include_file))
    include_doc,    \* what yaml.load gives for the include file
    pc,             \* position of the run in __init__ / submit
    config,         \* ConfigReader.config
    lists_set,      \* file_list / zip_file_list have been assigned
    file_list,      \* the direct-upload list
    zip_file_list,  \* the zip list
    user_id,        \* CanvasAssignment.user_id
    idx,            \* position of submit()'s for loop in file_list
    file_ids,       \* submit()'s local file_ids
    submission,     \* submit()'s local submission dict
    net,            \* the network calls issued so far, in order
    err,            \* the exception that ended the run, if any
    result          \* what submit() returned

vars == <<is_dir, has_include, include_doc, pc, config, lists_set, file_list,
          zip_file_list, user_id, idx, file_ids, submission, net, err, result>>

---------------------------------------------------------------------------
(* ConfigOptions and the shapes of a configuration *)

AID == "assignment_id"
CID == "course_id"
URL == "canvas_url"
FILES == "files"
API_KEY == "api_key"

(* [opt.value for opt in list(ConfigOptions)]: definition order *)
FIRST_LEVEL_KEYS == <<AID, CID, URL, FILES, API_KEY>>

(* A key the reader does not know. *)
ExtraKey == "comment"

(* The assignment directory the submitter is constructed with. *)
AssignmentDir == "hw"

(* os.path.join(path, entry) for a relative entry *)
Join(path, entry) == path \o "/" \o entry

(* A file-list entry as yaml.load gives it: a str, a dict or an int. *)
StrEntry(p) == [type |-> "str", val |-> p, keys |-> {}, zip |-> <<>>]
DictEntry(ks, z) == [type |-> "dict", val |-> "", keys |-> ks, zip |-> z]
IntEntry == [type |-> "int", val |-> "", keys |-> {}, zip |-> <<>>]

(* An item of a zip mapping's list: a str or an int. *)
StrItem(p) == [type |-> "str", val |-> p]
IntItem == [type |-> "int", val |-> ""]

(* The filesystem under the assignment directory, in the order its        *)
(* enumeration yields the paths (not sorted); hw/a/sub is a directory.    *)
FsOrder == <<"hw/b/x.py", "hw/a/2.txt", "hw/a/1.txt", "hw/a/sub">>
RegularFiles == {"hw/b/x.py", "hw/a/2.txt", "hw/a/1.txt"}

(* os.path.isfile(path) *)
IsFile(path) == path \in RegularFiles

(* Which paths a joined glob pattern matches. *)
PatternMatches(pattern) ==
    CASE pattern = "hw/a/*.txt" -> {"hw/a/2.txt", "hw/a/1.txt"}
      [] pattern = "hw/a/*" -> {"hw/a/2.txt", "hw/a/1.txt", "hw/a/sub"}
      [] pattern = "hw/b/*.py" -> {"hw/b/x.py"}
      [] OTHER -> {}

(* Variant of Glob: the matches sorted by name, as sorted(glob(...)) would. *)
GlobSorted(pattern) ==
    LET Sorted == <<"hw/a/1.txt", "hw/a/2.txt", "hw/a/sub", "hw/b/x.py">>
    IN  SelectSeq(Sorted, LAMBDA p : p \in PatternMatches(pattern))

(* glob(pattern): the matching paths in enumeration order *)
Glob(pattern) == SelectSeq(FsOrder, LAMBDA p : p \in PatternMatches(pattern))

(* The file-list entries the configurations are built from. *)
Entries ==
    { StrEntry("a/*.txt"),
      StrEntry("a/*"),
      DictEntry({"zip"}, <<StrItem("b/*.py")>>),
      DictEntry({"zip"}, <<StrItem("a/*.txt"), StrItem("b/*.py")>>),
      DictEntry({"zip", "name"}, <<StrItem("b/*.py")>>),
      DictEntry({"zip"}, <<IntItem>>),
      DictEntry({"name"}, <<>>),
      IntEntry }

RECURSIVE SeqsUpTo(_, _)
SeqsUpTo(S, n) ==
    IF n = 0 THEN {<<>>}
    ELSE LET shorter == SeqsUpTo(S, n - 1)
         IN  shorter \cup {Append(s, e) : s \in {t \in shorter : Len(t) = n - 1}, e \in S}

AllKeys == {AID, CID, URL, FILES, API_KEY, ExtraKey}

(* A parsed include file: its top-level keys and the value of `files`. *)
Doc(ks, fs) == [loaded |-> TRUE, keys |-> ks, files |-> fs]
NoConfig == [loaded |-> FALSE, keys |-> {}, files |-> <<>>]

Docs ==
    {Doc(ks, <<>>) : ks \in {k \in SUBSET AllKeys : FILES \notin k}}
    \cup {Doc(ks, fs) : ks \in {k \in SUBSET AllKeys : FILES \in k},
                        fs \in SeqsUpTo(Entries, MaxEntries)}

---------------------------------------------------------------------------
(* Exceptions *)

NoErr == [type |-> "none", msg |-> "", keys |-> <<>>, path |-> ""]
Exc(t, m) == [type |-> t, msg |-> m, keys |-> <<>>, path |-> ""]
ExcKeys(t, m, ks) == [type |-> t, msg |-> m, keys |-> ks, path |-> ""]
ExcPath(t, m, p) == [type |-> t, msg |-> m, keys |-> <<>>, path |-> p]

---------------------------------------------------------------------------
(* ConfigReader *)

(* Variant of ValidateConfig: stops at the first missing key. *)
ValidateConfigFirstOnly(cfg) ==
    LET bad == SelectSeq(FIRST_LEVEL_KEYS, LAMBDA k : k \notin cfg.keys)
    IN  IF bad # <<>>
        THEN ExcKeys("ValueError", "missing required keys", <<bad[1]>>)
        ELSE NoErr

(* __validate_config: the exception it raises, or NoErr *)
ValidateConfig(cfg) ==
    LET bad_keys == SelectSeq(FIRST_LEVEL_KEYS, LAMBDA k : k \notin cfg.keys)
    IN  IF bad_keys # <<>>
        THEN ExcKeys("ValueError", "missing required keys", bad_keys)
        ELSE NoErr

(* The state of _get_file_list's first loop before any entry. *)
FirstLoopStart == [err |-> NoErr, globs_to_zip |-> <<>>, file_list |-> <<>>]

(* Variant of FirstLoop: an entry of an unexpected type is skipped. *)
RECURSIVE FirstLoopSkipInvalid(_, _, _)
FirstLoopSkipInvalid(path, files, st) ==
    IF files = <<>> THEN st
    ELSE LET entry == Head(files)
         IN  IF entry.type = "dict" /\ "zip" \in entry.keys
             THEN FirstLoopSkipInvalid(path, Tail(files),
                                       [st EXCEPT !.globs_to_zip = entry.zip])
             ELSE IF entry.type = "str"
             THEN FirstLoopSkipInvalid(path, Tail(files),
                     [st EXCEPT !.file_list = @ \o Glob(Join(path, entry.val))])
             ELSE FirstLoopSkipInvalid(path, Tail(files), st)

(* Variant of FirstLoop: globs_to_zip is extended, not replaced. *)
RECURSIVE FirstLoopZipAccumulates(_, _, _)
FirstLoopZipAccumulates(path, files, st) ==
    IF files = <<>> THEN st
    ELSE LET entry == Head(files)
         IN  IF entry.type = "dict" /\ "zip" \in entry.keys
             THEN FirstLoopZipAccumulates(path, Tail(files),
                     [st EXCEPT !.globs_to_zip = @ \o entry.zip])
             ELSE IF entry.type = "str"
             THEN FirstLoopZipAccumulates(path, Tail(files),
                     [st EXCEPT !.file_list = @ \o Glob(Join(path, entry.val))])
             ELSE [st EXCEPT !.err = Exc("ValueError",
                                         "unexpected type detected in file list")]

(* _get_file_list, the loop over the entries of `files` *)
RECURSIVE FirstLoop(_, _, _)
FirstLoop(path, files, st) ==
    IF files = <<>> THEN st
    ELSE LET entry == Head(files)
         IN  IF entry.type = "dict" /\ "zip" \in entry.keys
             THEN FirstLoop(path, Tail(files),
                            [st EXCEPT !.globs_to_zip = entry.zip])
             ELSE IF entry.type = "str"
             THEN FirstLoop(path, Tail(files),
                     [st EXCEPT !.file_list = @ \o Glob(Join(path, entry.val))])
             ELSE [st EXCEPT !.err = Exc("ValueError",
                                         "unexpected type detected in file list")]

(* _get_file_list, the loop over globs_to_zip *)
RECURSIVE SecondLoop(_, _, _)
SecondLoop(path, globs, st) ==
    IF globs = <<>> THEN st
    ELSE LET entry == Head(globs)
         IN  IF entry.type = "str"
             THEN SecondLoop(path, Tail(globs),
                     [st EXCEPT !.zip_file_list = @ \o Glob(Join(path, entry.val))])
             ELSE [st EXCEPT !.err = Exc("ValueError",
                                         "unexpected type detected in zip file list")]

(* _get_file_list: [err, file_list, zip_file_list] *)
GetFileList(path, cfg) ==
    LET first == FirstLoop(path, cfg.files, FirstLoopStart)
    IN  IF first.err # NoErr
        THEN [err |-> first.err, file_list |-> <<>>, zip_file_list |-> <<>>]
        ELSE SecondLoop(path, first.globs_to_zip,
                        [err |-> NoErr, file_list |-> first.file_list,
                         zip_file_list |-> <<>>])

(* Variant of ReaderChecks: the include file is looked for first. *)
ReaderChecksSwapped(isdir, isfile) ==
    IF ~isfile THEN Exc("FileNotFoundError", "does not exist")
    ELSE IF ~isdir THEN Exc("ValueError", "must be a directory")
    ELSE NoErr

(* read(), the checks made before the include file is opened *)
ReaderChecks(isdir, isfile) ==
    IF ~isdir THEN Exc("ValueError", "must be a directory")
    ELSE IF ~isfile THEN Exc("FileNotFoundError", "does not exist")
    ELSE NoErr

(* read(): what it leaves in the reader and the exception it raises.      *)
(* self.config is assigned before validation; the two lists only when     *)
(* _get_file_list runs to its end.                                        *)
Read(path, isdir, isfile, doc) ==
    LET pre == ReaderChecks(isdir, isfile)
        unread == [err |-> pre, config |-> NoConfig, lists_set |-> FALSE,
                   file_list |-> <<>>, zip_file_list |-> <<>>]
    IN  IF pre # NoErr THEN unread
        ELSE LET bad == ValidateConfig(doc)
             IN  IF bad # NoErr
                 THEN [unread EXCEPT !.err = bad, !.config = doc]
                 ELSE LET got == GetFileList(path, doc)
                      IN  IF got.err # NoErr
                          THEN [unread EXCEPT !.err = got.err, !.config = doc]
                          ELSE [err |-> NoErr, config |-> doc, lists_set |-> TRUE,
                                file_list |-> got.file_list,
                                zip_file_list |-> got.zip_file_list]

---------------------------------------------------------------------------
(* The remote API *)

UserIds == {7}
UploadIds == {101, 102}
SubmissionRecords == {"submission_A", "submission_B"}
NoRecord == "None"
NoSubmission == [file_ids |-> <<>>, submission_type |-> ""]

(* One network call as the log keeps it. *)
NetCall(call, path, outcome, id, sub, ret) ==
    [call |-> call, path |-> path, outcome |-> outcome, id |-> id,
     file_ids |-> sub.file_ids, submission_type |-> sub.submission_type,
     ret |-> ret]

(* An exception out of the client library. *)
NetworkError == Exc("CanvasException", "request failed")

---------------------------------------------------------------------------
Init ==
    /\ is_dir \in BOOLEAN
    /\ has_include \in BOOLEAN
    /\ include_doc \in Docs \cup {NoConfig}
    /\ has_include => is_dir
    /\ include_doc.loaded <=> has_include
    /\ pc = "start"
    /\ config = NoConfig
    /\ lists_set = FALSE
    /\ file_list = <<>>
    /\ zip_file_list = <<>>
    /\ user_id = 0
    /\ idx = 0
    /\ file_ids = <<>>
    /\ submission = NoSubmission
    /\ net = <<>>
    /\ err = NoErr
    /\ result = NoRecord

Raise(e) == pc' = "failed" /\ err' = e

(* CanvasAssignment.__init__ up to the configuration being stored *)
Construct ==
    /\ pc = "start"
    /\ LET r == Read(AssignmentDir, is_dir, has_include, include_doc)
       IN  /\ config' = r.config
           /\ lists_set' = r.lists_set
           /\ file_list' = r.file_list
           /\ zip_file_list' = r.zip_file_list
           /\ IF r.err # NoErr THEN Raise(r.err)
              ELSE pc' = "configured" /\ err' = err
    /\ UNCHANGED <<is_dir, has_include, include_doc, user_id, idx, file_ids,
                   submission, net, result>>

(* __init__: Canvas(url, key), Requester(url, key), get_current_user().id *)
GetCurrentUser ==
    /\ pc = "configured"
    /\ \E outcome \in {"ok", "raise"}, uid \in UserIds :
          /\ net' = Append(net, NetCall("get_current_user", "", outcome,
                                        IF outcome = "ok" THEN uid ELSE 0,
                                        NoSubmission, NoRecord))
          /\ IF outcome = "ok"
             THEN user_id' = uid /\ pc' = "authenticated" /\ err' = err
             ELSE user_id' = user_id /\ Raise(NetworkError)
    /\ UNCHANGED <<is_dir, has_include, include_doc, config, lists_set,
                   file_list, zip_file_list, idx, file_ids, submission, result>>

(* submit() is called: file_ids = [] and the for loop starts *)
SubmitBegin ==
    /\ pc = "authenticated"
    /\ file_ids' = <<>>
    /\ idx' = 1
    /\ pc' = "uploading"
    /\ UNCHANGED <<is_dir, has_include, include_doc, config, lists_set,
                   file_list, zip_file_list, user_id, submission, net, err,
                   result>>

(* Variant of UploadNext: a reported failure is recorded and the loop goes on. *)
UploadNextKeepsGoing ==
    /\ pc = "uploading"
    /\ idx <= Len(file_list)
    /\ IsFile(file_list[idx])
    /\ \E outcome \in {"ok", "fail"}, id \in UploadIds :
          /\ net' = Append(net, NetCall("upload", file_list[idx], outcome,
                                        IF outcome = "ok" THEN id ELSE 0,
                                        NoSubmission, NoRecord))
          /\ idx' = idx + 1
          /\ pc' = pc
          /\ IF outcome = "ok"
             THEN file_ids' = Append(file_ids, id) /\ err' = err
             ELSE file_ids' = file_ids
                  /\ err' = ExcPath("IOError", "Failed to upload", file_list[idx])
    /\ UNCHANGED <<is_dir, has_include, include_doc, config, lists_set,
                   file_list, zip_file_list, user_id, submission, result>>

(* Variant of UploadNext: the newest identifier is put first. *)
UploadNextPrepends ==
    /\ pc = "uploading"
    /\ idx <= Len(file_list)
    /\ IsFile(file_list[idx])
    /\ \E id \in UploadIds :
          /\ net' = Append(net, NetCall("upload", file_list[idx], "ok", id,
                                        NoSubmission, NoRecord))
          /\ idx' = idx + 1
          /\ file_ids' = <<id>> \o file_ids
    /\ UNCHANGED <<is_dir, has_include, include_doc, config, lists_set, pc,
                   file_list, zip_file_list, user_id, submission, err, result>>

(* Variant of UploadNext: the loop runs over file_list + zip_file_list. *)
UploadNextWithZip ==
    /\ pc = "uploading"
    /\ idx <= Len(file_list \o zip_file_list)
    /\ IsFile((file_list \o zip_file_list)[idx])
    /\ \E id \in UploadIds :
          /\ net' = Append(net, NetCall("upload", (file_list \o zip_file_list)[idx],
                                        "ok", id, NoSubmission, NoRecord))
          /\ idx' = idx + 1
          /\ file_ids' = Append(file_ids, id)
    /\ UNCHANGED <<is_dir, has_include, include_doc, config, lists_set, pc,
                   file_list, zip_file_list, user_id, submission, err, result>>

(* submit(), one iteration of the for loop: upload_file_to_assignment     *)
(* (the isfile check, then Uploader(...).start()), the success check and  *)
(* file_ids.append                                                        *)
UploadNext ==
    /\ pc = "uploading"
    /\ idx <= Len(file_list)
    /\ LET path == file_list[idx]
       IN  IF ~IsFile(path)
           THEN /\ Raise(Exc("ValueError", "'path' must be a valid path to a file"))
                /\ UNCHANGED <<net, file_ids, idx>>
           ELSE \E outcome \in {"ok", "fail", "raise"}, id \in UploadIds :
                   /\ net' = Append(net, NetCall("upload", path, outcome,
                                                 IF outcome = "ok" THEN id ELSE 0,
                                                 NoSubmission, NoRecord))
                   /\ IF outcome = "ok"
                      THEN /\ file_ids' = Append(file_ids, id)
                           /\ idx' = idx + 1
                           /\ UNCHANGED <<pc, err>>
                      ELSE /\ UNCHANGED <<file_ids, idx>>
                           /\ IF outcome = "fail"
                              THEN Raise(ExcPath("IOError", "Failed to upload", path))
                              ELSE Raise(NetworkError)
    /\ UNCHANGED <<is_dir, has_include, include_doc, config, lists_set,
                   file_list, zip_file_list, user_id, submission, result>>

(* Variant of BuildSubmission: the loop is left one file early. *)
BuildSubmissionEarly ==
    /\ pc = "uploading"
    /\ idx >= Len(file_list)
    /\ submission' = [file_ids |-> file_ids, submission_type |-> "online_upload"]
    /\ pc' = "get_course"
    /\ UNCHANGED <<is_dir, has_include, include_doc, config, lists_set,
                   file_list, zip_file_list, user_id, idx, file_ids, net, err,
                   result>>

(* submit(): the loop is over and the submission dict is built *)
BuildSubmission ==
    /\ pc = "uploading"
    /\ idx > Len(file_list)
    /\ submission' = [file_ids |-> file_ids, submission_type |-> "online_upload"]
    /\ pc' = "get_course"
    /\ UNCHANGED <<is_dir, has_include, include_doc, config, lists_set,
                   file_list, zip_file_list, user_id, idx, file_ids, net, err,
                   result>>

(* get_assignment(): self._canvas.get_course(self.course_id) *)
GetCourse ==
    /\ pc = "get_course"
    /\ \E outcome \in {"ok", "raise"} :
          /\ net' = Append(net, NetCall("get_course", "", outcome, 0,
                                        NoSubmission, NoRecord))
          /\ IF outcome = "ok" THEN pc' = "get_assignment" /\ err' = err
             ELSE Raise(NetworkError)
    /\ UNCHANGED <<is_dir, has_include, include_doc, config, lists_set,
                   file_list, zip_file_list, user_id, idx, file_ids, submission,
                   result>>

(* get_assignment(): course.get_assignment(self.assignment_id) *)
GetAssignment ==
    /\ pc = "get_assignment"
    /\ \E outcome \in {"ok", "raise"} :
          /\ net' = Append(net, NetCall("get_assignment", "", outcome, 0,
                                        NoSubmission, NoRecord))
          /\ IF outcome = "ok" THEN pc' = "submit_call" /\ err' = err
             ELSE Raise(NetworkError)
    /\ UNCHANGED <<is_dir, has_include, include_doc, config, lists_set,
                   file_list, zip_file_list, user_id, idx, file_ids, submission,
                   result>>

(* submit(): return assignment.submit(submission) *)
SubmitCall ==
    /\ pc = "submit_call"
    /\ \E outcome \in {"ok", "raise"}, rec \in SubmissionRecords :
          /\ net' = Append(net, NetCall("submit", "", outcome, 0, submission,
                                        IF outcome = "ok" THEN rec ELSE NoRecord))
          /\ IF outcome = "ok"
             THEN result' = rec /\ pc' = "submitted" /\ err' = err
             ELSE result' = result /\ Raise(NetworkError)
    /\ UNCHANGED <<is_dir, has_include, include_doc, config, lists_set,
                   file_list, zip_file_list, user_id, idx, file_ids, submission>>

Next ==
    \/ Construct
    \/ GetCurrentUser
    \/ SubmitBegin
    \/ UploadNext
    \/ BuildSubmission
    \/ GetCourse
    \/ GetAssignment
    \/ SubmitCall

Spec == Init /\ [][Next]_vars

---------------------------------------------------------------------------
(* What the properties below are stated with *)

RequiredKeys == {"assignment_id", "course_id", "canvas_url", "files", "api_key"}

Range(s) == {s[i] : i \in DOMAIN s}

IsPrefix(s, t) == Len(s) <= Len(t) /\ \A i \in DOMAIN s : s[i] = t[i]

CallsOf(log, name) == SelectSeq(log, LAMBDA c : c.call = name)
Uploads == CallsOf(net, "upload")
Submits == CallsOf(net, "submit")
CallNames == [i \in DOMAIN net |-> net[i].call]
UploadPaths == [i \in DOMAIN Uploads |-> Uploads[i].path]
UploadedIds == [i \in DOMAIN Uploads |-> Uploads[i].id]

(* The include file was parsed and holds the five required keys, so that  *)
(* the reader went on to resolve the file list.                           *)
ReachedResolution == pc # "start" /\ config.loaded /\ RequiredKeys \subseteq config.keys

(* The paths a pattern of the include file stands for, as the directory   *)
(* enumeration gives them.                                                *)
Enumerated(pattern) ==
    SelectSeq(FsOrder, LAMBDA p : p \in PatternMatches("hw/" \o pattern))

ZipShaped(e) == e.type = "dict" /\ "zip" \in e.keys
ZipPositions(files) == {i \in DOMAIN files : ZipShaped(files[i])}
LastZipPosition(files) ==
    CHOOSE i \in ZipPositions(files) : \A j \in ZipPositions(files) : j <= i

RECURSIVE ExpandItems(_)
ExpandItems(items) ==
    IF items = <<>> THEN <<>>
    ELSE ExpandItems(SubSeq(items, 1, Len(items) - 1))
         \o Enumerated(items[Len(items)].val)

(* The expansions of the plain string entries, one after the other. *)
RECURSIVE ExpectedDirect(_)
ExpectedDirect(files) ==
    IF files = <<>> THEN <<>>
    ELSE LET last == files[Len(files)]
         IN  ExpectedDirect(SubSeq(files, 1, Len(files) - 1))
             \o (IF last.type = "str" THEN Enumerated(last.val) ELSE <<>>)

(* The expansion of the patterns of the last zip-shaped entry. *)
ExpectedZip(files) ==
    IF ZipPositions(files) = {} THEN <<>>
    ELSE ExpandItems(files[LastZipPosition(files)].zip)

AcceptedShape(e) == e.type = "str" \/ ZipShaped(e)
AllStrItems(items) == \A i \in DOMAIN items : items[i].type = "str"

---------------------------------------------------------------------------
(* C10: read() checks its preconditions before anything is parsed: a path *)
(* that is not a directory fails with the must-be-a-directory error,      *)
(* otherwise an absent include file fails with FileNotFoundError; in both *)
(* cases no configuration and no list is produced, and neither            *)
(* validation nor file-list resolution is reached.                        *)
C10_PreconditionsFirst ==
    pc # "start" =>
        /\ ~is_dir =>
              /\ pc = "failed"
              /\ err = Exc("ValueError", "must be a directory")
        /\ (is_dir /\ ~has_include) =>
              /\ pc = "failed"
              /\ err = Exc("FileNotFoundError", "does not exist")
        /\ (~is_dir \/ ~has_include) =>
              /\ config = NoConfig
              /\ ~lists_set
              /\ file_list = <<>> /\ zip_file_list = <<>>
              /\ net = <<>>

C10_Witness ==
    /\ pc = "failed"
    /\ is_dir /\ ~has_include
    /\ err.type = "FileNotFoundError"

(* C5: for a parsed configuration whose set M of absent required keys is  *)
(* not empty, the reader fails with the missing-keys error listing        *)
(* exactly the keys of M, once each, and the file list is not resolved;   *)
(* when M is empty no missing-keys error is raised, whatever other keys   *)
(* are there.                                                             *)
C5_MissingKeysListed ==
    (pc # "start" /\ config.loaded) =>
        LET M == RequiredKeys \ config.keys
        IN  /\ M # {} =>
                  /\ pc = "failed"
                  /\ err.type = "ValueError"
                  /\ err.msg = "missing required keys"
                  /\ Range(err.keys) = M
                  /\ Len(err.keys) = Cardinality(M)
                  /\ ~lists_set
                  /\ file_list = <<>> /\ zip_file_list = <<>>
            /\ M = {} => err.msg # "missing required keys"

C5_Witness ==
    /\ pc = "failed"
    /\ err.msg = "missing required keys"
    /\ Len(err.keys) = 2
    /\ {"files", "comment"} \subseteq config.keys
    /\ \E i \in DOMAIN config.files : config.files[i].type = "int"

(* C6, as claimed: a file list with an entry that is neither a string nor *)
(* a mapping whose only key is "zip" makes construction fail with the     *)
(* invalid-entry error, with no network call.                             *)
C6_SingleKeyZipOnly ==
    (/\ ReachedResolution
     /\ \E i \in DOMAIN config.files :
           ~(\/ config.files[i].type = "str"
             \/ (config.files[i].type = "dict" /\ config.files[i].keys = {"zip"})))
    => /\ pc = "failed"
       /\ err = Exc("ValueError", "unexpected type detected in file list")
       /\ net = <<>>

(* C6, amended: a file list with an entry that is neither a string nor a  *)
(* mapping containing the key "zip" makes construction fail with the      *)
(* invalid-entry error, with no network call before or after.             *)
C6_InvalidEntryFails ==
    (/\ ReachedResolution
     /\ \E i \in DOMAIN config.files : ~AcceptedShape(config.files[i]))
    => /\ pc = "failed"
       /\ err = Exc("ValueError", "unexpected type detected in file list")
       /\ ~lists_set
       /\ net = <<>>

C6_Witness ==
    /\ ReachedResolution
    /\ Len(config.files) = 2
    /\ config.files[1].type = "str"
    /\ config.files[2].type = "dict" /\ "zip" \notin config.files[2].keys
    /\ pc = "failed"

(* C8: with several zip-shaped entries the last one wins: resolution      *)
(* fails only for an entry of an unexpected shape or a non-string item in *)
(* the last zip-shaped entry, never for the replacement, and otherwise    *)
(* the zip list is the expansion of the last zip-shaped entry's patterns  *)
(* and the direct list holds the string entries' expansions only.         *)
C8_LastZipWins ==
    (ReachedResolution /\ Cardinality(ZipPositions(config.files)) >= 2) =>
        LET files == config.files
            last == files[LastZipPosition(files)]
        IN  /\ lists_set <=>
                  /\ \A i \in DOMAIN files : AcceptedShape(files[i])
                  /\ AllStrItems(last.zip)
            /\ lists_set =>
                  /\ zip_file_list = ExpandItems(last.zip)
                  /\ file_list = ExpectedDirect(files)

C8_Witness ==
    /\ ReachedResolution
    /\ lists_set
    /\ Len(config.files) >= 2
    /\ ZipShaped(config.files[1]) /\ ZipShaped(config.files[2])
    /\ config.files[1].zip # config.files[2].zip
    /\ ~AllStrItems(config.files[1].zip)
    /\ zip_file_list # <<>>

(* C9: for a file list that resolves, the direct list is the              *)
(* concatenation, in entry order, of the expansion of each string entry,  *)
(* each in enumeration order and with repeated matches kept; what the zip *)
(* patterns match goes to the zip list and adds nothing to the direct     *)
(* list.                                                                  *)
C9_DirectListIsConcatenation ==
    (ReachedResolution /\ lists_set) =>
        /\ file_list = ExpectedDirect(config.files)
        /\ zip_file_list = ExpectedZip(config.files)

C9_Witness ==
    /\ ReachedResolution
    /\ lists_set
    /\ file_list = <<"hw/a/2.txt", "hw/a/1.txt", "hw/a/sub", "hw/a/2.txt", "hw/a/1.txt">>

---------------------------------------------------------------------------
(* C1: when upload call K is the first to report failure, the uploads     *)
(* issued are exactly those of files 1..K in list order, that upload is   *)
(* the last network call, no submission call is made, and submit() has    *)
(* ended with an IOError naming the path of file K.                       *)
C1_FailedUploadAborts ==
    \A k \in DOMAIN Uploads :
        (/\ Uploads[k].outcome = "fail"
         /\ \A j \in 1..(k - 1) : Uploads[j].outcome # "fail")
        => /\ Len(Uploads) = k
           /\ k <= Len(file_list)
           /\ \A j \in 1..k : Uploads[j].path = file_list[j]
           /\ \A j \in 1..(k - 1) : Uploads[j].outcome = "ok"
           /\ net[Len(net)] = Uploads[k]
           /\ Submits = <<>>
           /\ pc = "failed"
           /\ err = ExcPath("IOError", "Failed to upload", file_list[k])
           /\ result = NoRecord

C1_Witness ==
    /\ pc = "failed"
    /\ err.type = "IOError"
    /\ Len(Uploads) = 2
    /\ Len(file_list) >= 4
    /\ err.path = file_list[2]

(* C2: a submission call carries as file_ids exactly the identifiers the  *)
(* uploads returned, in upload order, one per file of the direct list     *)
(* with repeated identifiers kept, and "online_upload" as its type; there *)
(* is at most one such call, and when submit() returns there is exactly   *)
(* one and submit() returned the record it gave.                          *)
C2_SubmissionCarriesUploadedIds ==
    /\ Len(Submits) <= 1
    /\ \A i \in DOMAIN Submits :
          /\ \A j \in DOMAIN Uploads : Uploads[j].outcome = "ok"
          /\ Len(Uploads) = Len(file_list)
          /\ Submits[i].file_ids = UploadedIds
          /\ Submits[i].submission_type = "online_upload"
    /\ pc = "submitted" =>
          /\ Len(Submits) = 1
          /\ Submits[1].outcome = "ok"
          /\ result = Submits[1].ret
          /\ result \in SubmissionRecords

C2_Witness ==
    /\ pc = "submitted"
    /\ Len(Submits) = 1
    /\ Len(Submits[1].file_ids) = 4
    /\ Submits[1].file_ids[1] = Submits[1].file_ids[3]
    /\ Submits[1].file_ids[1] # Submits[1].file_ids[2]

(* The lifecycle state of the submitter. *)
Phase ==
    IF err # NoErr THEN "Failed"
    ELSE CASE pc = "start" -> "Uninitialized"
           [] pc = "configured" -> "Configured"
           [] pc = "authenticated" -> "Authenticated"
           [] pc \in {"uploading", "get_course", "get_assignment", "submit_call"}
                -> "Uploading"
           [] pc = "submitted" -> "Submitted"
           [] OTHER -> "Failed"

LinearEdges ==
    { <<"Uninitialized", "Configured">>, <<"Configured", "Authenticated">>,
      <<"Authenticated", "Uploading">>, <<"Uploading", "Submitted">> }

ClaimedFailureEdges ==
    { <<"Configured", "Failed">>, <<"Authenticated", "Failed">>,
      <<"Uploading", "Failed">> }

FailedIsAbsorbing == Phase = "Failed" => (Phase' = "Failed" /\ net' = net)

NoRetry == Len(CallsOf(net', "upload")) <= Len(file_list')

(* C3, as claimed: the lifecycle moves only along Uninitialized ->        *)
(* Configured -> Authenticated -> Uploading -> Submitted, Failed is       *)
(* entered from Configured, Authenticated or Uploading, and Failed is     *)
(* absorbing.                                                             *)
C3_LinearLifecycle ==
    [][/\ Phase' # Phase => <<Phase, Phase'>> \in LinearEdges \cup ClaimedFailureEdges
       /\ FailedIsAbsorbing
       /\ NoRetry]_vars

(* C3, amended: as claimed, except that Failed is also entered from       *)
(* Uninitialized, which is where an error of the configuration reader     *)
(* ends the run; once Failed, no network call is issued and no other      *)
(* state is entered, and no file is uploaded twice.                       *)
C3_LinearLifecycleWithReaderFailure ==
    [][/\ Phase' # Phase =>
             <<Phase, Phase'>> \in LinearEdges \cup ClaimedFailureEdges
                                   \cup {<<"Uninitialized", "Failed">>}
       /\ FailedIsAbsorbing
       /\ NoRetry]_vars

C3_Witness ==
    /\ Phase = "Failed"
    /\ pc = "failed"
    /\ Len(Uploads) >= 2
    /\ Uploads[Len(Uploads)].outcome = "fail"

(* The network calls of a run in which every call succeeds, for n files.  *)
UploadCalls(n) == [i \in 1..n |-> "upload"]
ClaimedCalls(n) == <<"get_current_user">> \o UploadCalls(n) \o <<"submit">>
IssuedCalls(n) ==
    <<"get_current_user">> \o UploadCalls(n)
    \o <<"get_course", "get_assignment", "submit">>

(* C4, as claimed: in a run whose uploads all succeed the network calls   *)
(* are one identity lookup, the N uploads in file-list order and one      *)
(* submit call, and no other.                                             *)
C4_OnlyIdentityUploadsSubmit ==
    /\ IsPrefix(UploadPaths, file_list)
    /\ pc = "submitted" => CallNames = ClaimedCalls(Len(file_list))

(* C4, amended: in a run whose uploads all succeed the network calls are  *)
(* one identity lookup, the N uploads one at a time in file-list order,   *)
(* then the course lookup and the assignment lookup of get_assignment(),  *)
(* then one submit call, and no other; at every moment the calls issued   *)
(* are a prefix of that sequence, so that the lookups and the submit call *)
(* come only after the last upload has succeeded.                         *)
C4_CallsOfARun ==
    /\ IsPrefix(UploadPaths, file_list)
    /\ IsPrefix(CallNames, IssuedCalls(Len(file_list)))
    /\ \A i \in DOMAIN net :
          net[i].call # "upload" /\ i > 1 =>
              /\ Len(Uploads) = Len(file_list)
              /\ \A j \in DOMAIN Uploads : Uploads[j].outcome = "ok"
    /\ pc = "submitted" =>
          /\ CallNames = IssuedCalls(Len(file_list))
          /\ UploadPaths = file_list

C4_Witness ==
    /\ pc = "submitted"
    /\ Len(file_list) = 4
    /\ Len(net) = 8

(* C7: the paths handed to upload calls are a prefix of the direct list;  *)
(* a path that is only in the zip list is never uploaded, and a           *)
(* submission call refers only to identifiers that uploads of direct-list *)
(* files returned.                                                        *)
C7_ZipFilesNeverUploaded ==
    /\ IsPrefix(UploadPaths, file_list)
    /\ \A p \in Range(zip_file_list) \ Range(file_list) :
          \A i \in DOMAIN net : net[i].path # p
    /\ \A i \in DOMAIN Submits :
          /\ Len(Submits[i].file_ids) = Len(file_list)
          /\ \A j \in DOMAIN Submits[i].file_ids :
                /\ Uploads[j].path = file_list[j]
                /\ Submits[i].file_ids[j] = Uploads[j].id

C7_Witness ==
    /\ pc = "submitted"
    /\ Len(Uploads) = 2
    /\ zip_file_list = <<"hw/b/x.py">>
    /\ "hw/b/x.py" \notin Range(file_list)

====
